---- MODULE Spec2Model ----
(***************************************************************************)
(* A model of allzpark's command-line bootstrap (allzpark/cli.py), of the  *)
(* Rez API shim's find_latest (allzpark/_rezapi.py) and of the test helper *)
(* wait (tests/util.py).                                                   *)
(*                                                                         *)
(* Spec        main(): arguments, logging, allzparkconfig, preferences     *)
(* HookSpec    main() followed by unhandled exceptions in the event loop   *)
(* FindSpec    find_latest over a package repository                       *)
(* WaitSpec    wait(signal, on_value, timeout)                             *)
(* RezBinSpec  _find_rez_bin_in_context walking up from dirname(REZ_USED)  *)
(***************************************************************************)
EXTENDS Integers, Sequences, FiniteSets, TLC

VARIABLES
    \* ---- main() -------------------------------------------------------
    argv,            \* the command line as given (never written again)
    opts,            \* parser.parse_args(), as main() rewrites it
    console,         \* whether sys.stdout exists (FALSE under pythonw.exe)
    environ,         \* whether ALLZPARK_CONFIG_FILE is set
    pc,              \* position of main()
    exitStatus,      \* argument of exit(), "none" while running
    failed,          \* title of the timings() block that told "fail", or ""
    logLevel,        \* level of logging.getLogger("allzpark")
    imported,        \* the allzparkconfig module as imported
    allzparkconfig,  \* the allzparkconfig module's attributes
    noconsole,       \* allzparkconfig.__noconsole__ is set
    userconfig,      \* what _load_userconfig() did: file name and outcome
    previous,        \* the settings file an earlier session left
    readable,        \* whether storage.value() can read that file
    storage,         \* QSettings("Allzpark", "preferences")
    excepthook,      \* sys.excepthook
    \* ---- excepthook ---------------------------------------------------
    raised,          \* the last unhandled exception (type, value, traceback)
    handled,         \* what ctrl.on_unhandled_exception returned for it
    hookCalls,       \* the calls the hook made for it, in order
    ctrlErrors,      \* every exception the controller has been handed
    stderrTraces,    \* every exception sys.__excepthook__ has printed
    \* ---- find_latest --------------------------------------------------
    packages,        \* the repository find() iterates, in its order
    request,         \* the arguments of find_latest
    latest,          \* what find_latest returned or raised
    \* ---- wait ---------------------------------------------------------
    on_value,        \* argument of wait
    loop,            \* QEventLoop: "idle", "running", "quit"
    state,           \* state["timeout"]
    timerFired,      \* the singleShot timer has fired
    emitted,         \* every value the signal emitted since connect
    heard,           \* how many of them arrived while the loop was running
    waitResult,      \* "idle", "pending", "returned", "raised"
    \* ---- _find_rez_bin_in_context ---------------------------------------
    platform,        \* system.platform
    tree,            \* the directories from the root (0) down to the start
    current,         \* the directory being looked at
    rezpc,           \* "idle", "listdir", "found", "done"
    rezResult        \* the returned path, "None", or "pending"

mainVars == <<argv, opts, console, environ, pc, exitStatus, failed, logLevel, imported,
              allzparkconfig, noconsole, userconfig, previous, readable,
              storage, excepthook>>
hookVars == <<raised, handled, hookCalls, ctrlErrors, stderrTraces>>
findVars == <<packages, request, latest>>
waitVars == <<on_value, loop, state, timerFired, emitted, heard, waitResult>>
rezVars  == <<platform, tree, current, rezpc, rezResult>>
restVars == <<hookVars, findVars, waitVars, rezVars>>
vars == <<mainVars, restVars>>

\* ---------------------------------------------------------------- bounds
MaxVerbose == 3
MaxUnderscores == 2
MaxUserKeys == 1
MaxStoredKeys == 1
MaxExceptions == 2
MaxPackages == 3
MaxVersion == 2
MaxEmits == 3
MaxDepth == 2

Absent == "<absent>"

\* ------------------------------------------------------- allzparkconfig
\* Attribute names are a count of leading underscores and the rest of the
\* name; the rest starts with a lowercase letter.
Bases == {"profiles", "projects", "startup_application", "startup_profile",
          "startup_project"}
BaseOrder == <<"profiles", "projects", "startup_application", "startup_profile",
               "startup_project">>
Names == [u : 0..MaxUnderscores, base : Bases]
Name(b) == [u |-> 0, base |-> b]

StartsWithDunder(key) == key.u >= 2
Prefixed(member) == [member EXCEPT !.u = @ + 1]

BaseRank(b) == CHOOSE i \in 1..Len(BaseOrder) : BaseOrder[i] = b
\* Python's string order: "_" sorts before every lowercase letter.
NameLess(a, b) == IF a.u # b.u THEN a.u > b.u
                  ELSE BaseRank(a.base) < BaseRank(b.base)

RECURSIVE SortedNames(_)
SortedNames(S) ==
    IF S = {} THEN <<>>
    ELSE LET m == CHOOSE x \in S : \A y \in S \ {x} : NameLess(x, y)
         IN  <<m>> \o SortedNames(S \ {m})

HasAttr(cfg, n) == cfg[n] # Absent
Dir(cfg) == SortedNames({n \in Names : HasAttr(cfg, n)})

ModuleOf(attrs) == [n \in Names |-> IF n \in DOMAIN attrs THEN attrs[n] ELSE Absent]

ModernConfig ==
    ModuleOf((Name("profiles") :> "default_profiles")
          @@ (Name("startup_profile") :> "")
          @@ (Name("startup_application") :> ""))
LegacyConfig ==
    ModuleOf((Name("profiles") :> "default_profiles")
          @@ (Name("projects") :> "default_projects")
          @@ (Name("startup_profile") :> "")
          @@ (Name("startup_project") :> "")
          @@ (Name("startup_application") :> ""))
ImportedConfigs == {ModernConfig, LegacyConfig}

UserValues == {"user"}
RECURSIVE KeySets(_)
KeySets(k) == IF k = 0 THEN {{}}
              ELSE KeySets(k - 1)
                   \cup {S \cup {n} : S \in KeySets(k - 1), n \in Names}
UserModules ==
    UNION {{[n \in Names |-> IF n \in S THEN v ELSE Absent] : v \in UserValues}
           : S \in KeySets(MaxUserKeys)}

RECURSIVE PatchFrom(_, _, _)
PatchFrom(cfg, members, i) ==
    IF i > Len(members) THEN cfg
    ELSE IF StartsWithDunder(members[i]) THEN PatchFrom(cfg, members, i + 1)
    ELSE PatchFrom([cfg EXCEPT ![Prefixed(members[i])] = cfg[members[i]]],
                   members, i + 1)
_patch_allzparkconfig(cfg) == PatchFrom(cfg, Dir(cfg), 1)

SetFromUser(cfg, mod) ==
    [key \in Names |->
        IF HasAttr(cfg, key) /\ ~StartsWithDunder(key) /\ mod[key] # Absent
        THEN mod[key] ELSE cfg[key]]

_backwards_compatibility(cfg) ==
    LET a == IF HasAttr(cfg, Name("projects"))
             THEN [cfg EXCEPT ![Name("profiles")] = cfg[Name("projects")]]
             ELSE cfg
    IN  IF HasAttr(a, Name("startup_project"))
        THEN [a EXCEPT ![Name("startup_profile")] = a[Name("startup_project")]]
        ELSE a

Truthy(v) == v \notin {"", Absent}

\* ------------------------------------------------------------- settings
DefaultKeys == {"memcachedURI", "pythonExe", "pythonVersion", "qtVersion",
                "qtBinding", "qtBindingVersion", "rezLocation", "rezVersion",
                "rezConfigFile", "rezPackagesPath", "rezLocalPath",
                "rezReleasePath", "settingsPath"}
Keys == DefaultKeys \cup {"startupProfile", "startupApp",
                          "useDevelopmentPackages", "theme", "userCss"}

RECURSIVE StoredKeySets(_)
StoredKeySets(k) == IF k = 0 THEN {{}}
                    ELSE StoredKeySets(k - 1)
                         \cup {S \cup {x} : S \in StoredKeySets(k - 1), x \in Keys}
PreviousStores ==
    {[k \in Keys |-> IF k \in S THEN "old" ELSE Absent] : S \in StoredKeySets(MaxStoredKeys)}

clear(store) == [k \in Keys |-> Absent]

WritePreferences(store, cfg, o) ==
    LET defaults  == [k \in Keys |-> IF k \in DefaultKeys THEN "session" ELSE store[k]]
        profile   == IF Truthy(cfg[Name("startup_profile")])
                     THEN [defaults EXCEPT !["startupProfile"] = cfg[Name("startup_profile")]]
                     ELSE defaults
        app       == IF Truthy(cfg[Name("startup_application")])
                     THEN [profile EXCEPT !["startupApp"] = cfg[Name("startup_application")]]
                     ELSE profile
    IN  IF o.demo THEN [app EXCEPT !["useDevelopmentPackages"] = "True"] ELSE app

\* ----------------------------------------------------------------- main
CliPath  == "/studio/allzparkconfig.py"
EnvPath  == "$ALLZPARK_CONFIG_FILE"
HomePath == "~/allzparkconfig.py"
DemoPath == "allzparkdemo.allzparkconfig"

Args == [verbose : 0..MaxVerbose, version : BOOLEAN, clean : BOOLEAN,
         no_config : BOOLEAN, demo : BOOLEAN, config_file : {"None", CliPath}]

NotLoaded == [fname |-> "None", outcome |-> "not loaded"]

MainInit ==
    /\ argv \in Args
    /\ opts = argv
    /\ console \in BOOLEAN
    /\ environ \in BOOLEAN
    /\ pc = "console"
    /\ exitStatus = "none"
    /\ failed = ""
    /\ logLevel = "NOTSET"
    /\ imported \in ImportedConfigs
    /\ allzparkconfig = imported
    /\ noconsole = FALSE
    /\ userconfig = NotLoaded
    /\ previous \in PreviousStores
    /\ readable \in BOOLEAN
    /\ storage = previous
    /\ excepthook = "sys.__excepthook__"

exit(status) == /\ pc' = "exit"
                /\ exitStatus' = status

\* timings(): an exception inside the block tells "fail" and exits with 1
timings_failure(title) == /\ failed' = title
                          /\ exit("1")

Console ==
    /\ pc = "console"
    /\ IF ~console
       THEN /\ opts' = [opts EXCEPT !.verbose = 3]
            /\ noconsole' = TRUE
       ELSE UNCHANGED <<opts, noconsole>>
    /\ pc' = "version"
    /\ UNCHANGED <<failed, argv, console, environ, exitStatus, logLevel, imported,
                   allzparkconfig, userconfig, previous, readable, storage,
                   excepthook>>
    /\ UNCHANGED restVars

Version ==
    /\ pc = "version"
    /\ IF opts.version THEN exit("0")
       ELSE pc' = "logging" /\ UNCHANGED exitStatus
    /\ UNCHANGED <<failed, argv, opts, console, environ, logLevel, imported,
                   allzparkconfig, noconsole, userconfig, previous, readable,
                   storage, excepthook>>
    /\ UNCHANGED restVars

LevelOf(verbose) == IF verbose >= 2 THEN "DEBUG"
                    ELSE IF verbose = 1 THEN "INFO"
                    ELSE "WARNING"

SetupLogging ==
    /\ pc = "logging"
    /\ logLevel' = LevelOf(opts.verbose)
    /\ pc' = "demo"
    /\ UNCHANGED <<failed, argv, opts, console, environ, exitStatus, imported,
                   allzparkconfig, noconsole, userconfig, previous, readable,
                   storage, excepthook>>
    /\ UNCHANGED restVars

LoadDemo ==
    /\ pc = "demo"
    /\ IF opts.demo
       THEN \E importable \in BOOLEAN :
               IF importable
               THEN /\ opts' = [opts EXCEPT !.config_file = DemoPath]
                    /\ pc' = "libraries"
                    /\ UNCHANGED <<exitStatus, failed>>
               ELSE timings_failure("- Loading demo..") /\ UNCHANGED opts
       ELSE pc' = "libraries" /\ UNCHANGED <<opts, exitStatus, failed>>
    /\ UNCHANGED <<argv, console, environ, logLevel, imported, allzparkconfig,
                   noconsole, userconfig, previous, readable, storage,
                   excepthook>>
    /\ UNCHANGED restVars

LibraryTitles == {"    + Patching Rez Binary Path.. ",
                  "    + Resolving Native Environment.. ", "- Loading Qt.. ",
                  "- Loading allzpark.. "}

\* Rez, Qt and allzpark's own modules import, or one of the blocks fails.
LoadLibraries ==
    /\ pc = "libraries"
    /\ \/ pc' = "patch" /\ UNCHANGED <<exitStatus, failed>>
       \/ exit("1") /\ UNCHANGED failed      \* "ERROR: allzpark requires rez"
       \/ \E title \in LibraryTitles : timings_failure(title)
    /\ UNCHANGED <<argv, opts, console, environ, logLevel, imported,
                   allzparkconfig, noconsole, userconfig, previous, readable,
                   storage, excepthook>>
    /\ UNCHANGED restVars

PatchAllzparkconfig ==
    /\ pc = "patch"
    /\ allzparkconfig' = _patch_allzparkconfig(allzparkconfig)
    /\ pc' = "userconfig"
    /\ UNCHANGED <<failed, argv, opts, console, environ, exitStatus, logLevel,
                   imported, noconsole, userconfig, previous, readable,
                   storage, excepthook>>
    /\ UNCHANGED restVars

UserconfigName(fname) == IF fname # "None" THEN fname
                         ELSE IF environ THEN EnvPath ELSE HomePath

\* The file at fname is missing (open raises IOError), does not run as
\* Python (exec raises), or runs and leaves the module namespace mod.
LoadUserconfig ==
    /\ pc = "userconfig"
    /\ LET fname == UserconfigName(opts.config_file) IN
       \/ /\ userconfig' = [fname |-> fname, outcome |-> "IOError"]
          /\ pc' = "compatibility"
          /\ UNCHANGED <<allzparkconfig, exitStatus, failed>>
       \/ /\ userconfig' = [fname |-> fname, outcome |-> "UserError"]
          /\ timings_failure("- Loading allzparkconfig.. ")
          /\ UNCHANGED allzparkconfig
       \/ \E mod \in UserModules :
            /\ allzparkconfig' = SetFromUser(allzparkconfig, mod)
            /\ userconfig' = [fname |-> fname, outcome |-> "loaded"]
            /\ pc' = "compatibility"
            /\ UNCHANGED <<exitStatus, failed>>
    /\ UNCHANGED <<argv, opts, console, environ, logLevel, imported,
                   noconsole, previous, readable, storage, excepthook>>
    /\ UNCHANGED restVars

BackwardsCompatibility ==
    /\ pc = "compatibility"
    /\ allzparkconfig' = _backwards_compatibility(allzparkconfig)
    /\ pc' = "preferences"
    /\ UNCHANGED <<failed, argv, opts, console, environ, exitStatus, logLevel,
                   imported, noconsole, userconfig, previous, readable,
                   storage, excepthook>>
    /\ UNCHANGED restVars

LoadPreferences ==
    /\ pc = "preferences"
    /\ IF ~readable
       THEN timings_failure("- Loading preferences.. ") /\ UNCHANGED storage
       ELSE /\ storage' = WritePreferences(
                              IF opts.clean THEN clear(storage) ELSE storage,
                              allzparkconfig, opts)
            /\ pc' = "excepthook"
            /\ UNCHANGED <<exitStatus, failed>>
    /\ UNCHANGED <<argv, opts, console, environ, logLevel, imported,
                   allzparkconfig, noconsole, userconfig, previous, readable,
                   excepthook>>
    /\ UNCHANGED restVars

InstallExcepthook ==
    /\ pc = "excepthook"
    /\ excepthook' = "main.excepthook"
    /\ pc' = "exec"
    /\ UNCHANGED <<failed, argv, opts, console, environ, exitStatus, logLevel,
                   imported, allzparkconfig, noconsole, userconfig, previous,
                   readable, storage>>
    /\ UNCHANGED restVars

MainNext ==
    \/ Console
    \/ Version
    \/ SetupLogging
    \/ LoadDemo
    \/ LoadLibraries
    \/ PatchAllzparkconfig
    \/ LoadUserconfig
    \/ BackwardsCompatibility
    \/ LoadPreferences
    \/ InstallExcepthook

\* ----------------------------------------------------------- excepthook
Exceptions == [type : {"RezError", "KeyError"}, value : {"e1", "e2"},
               traceback : {"tb"}]
NoException == [type |-> "none", value |-> "none", traceback |-> "none"]

HookIdle ==
    /\ raised = NoException
    /\ handled = FALSE
    /\ hookCalls = <<>>
    /\ ctrlErrors = <<>>
    /\ stderrTraces = <<>>

Call(fn, exc) == [fn |-> fn, args |-> exc]

\* The calls main.excepthook makes for one exception, in order; was_handled
\* is what ctrl.on_unhandled_exception returns.
excepthook_always(exc, was_handled) ==
    <<Call("ctrl.on_unhandled_exception", exc), Call("sys.__excepthook__", exc)>>
main_excepthook(exc, was_handled) ==
    <<Call("ctrl.on_unhandled_exception", exc)>>
    \o (IF ~was_handled THEN <<Call("sys.__excepthook__", exc)>> ELSE <<>>)

ArgsTo(calls, fn) ==
    LET to == SelectSeq(calls, LAMBDA c : c.fn = fn)
    IN  [i \in DOMAIN to |-> to[i].args]

\* An exception escapes a slot or timer callback while app.exec_() runs.
UnhandledException ==
    /\ pc = "exec"
    /\ excepthook = "main.excepthook"
    /\ Len(ctrlErrors) < MaxExceptions
    /\ \E exc \in Exceptions, was_handled \in BOOLEAN :
         LET calls == main_excepthook(exc, was_handled) IN
         /\ raised' = exc
         /\ handled' = was_handled
         /\ hookCalls' = calls
         /\ ctrlErrors' = ctrlErrors \o ArgsTo(calls, "ctrl.on_unhandled_exception")
         /\ stderrTraces' = stderrTraces \o ArgsTo(calls, "sys.__excepthook__")
    /\ UNCHANGED <<mainVars, findVars, waitVars, rezVars>>

\* ---------------------------------------------------------- find_latest
PackageNames == {"maya", "nuke"}
Packages == [name : PackageNames, version : 1..MaxVersion]
NoRange == [lo |-> 0, hi |-> 0]
Ranges == {NoRange} \cup {r \in [lo : 1..MaxVersion, hi : 1..MaxVersion] : r.lo <= r.hi}
NoPackage == [name |-> "", version |-> 0]
Pending == [outcome |-> "pending", error |-> "", package |-> NoPackage]
Returned(pkg) == [outcome |-> "returned", error |-> "", package |-> pkg]
Raised(error) == [outcome |-> "raised", error |-> error, package |-> NoPackage]

RECURSIVE SeqsUpTo(_, _)
SeqsUpTo(S, n) == IF n = 0 THEN {<<>>}
                  ELSE SeqsUpTo(S, n - 1)
                       \cup {Append(q, x) : q \in SeqsUpTo(S, n - 1), x \in S}

FindIdle ==
    /\ packages = <<>>
    /\ request = [name |-> "", range_ |-> NoRange]
    /\ latest = Pending

InRange(version, range_) ==
    range_ = NoRange \/ (range_.lo <= version /\ version <= range_.hi)

\* iter_packages: the packages of the family inside the range, in repository order
find(repo, name, range_) ==
    SelectSeq(repo, LAMBDA pkg : pkg.name = name /\ InRange(pkg.version, range_))

\* sorted(): stable, ascending by pkg.version
RECURSIVE Insert(_, _)
Insert(sortedSeq, pkg) ==
    IF sortedSeq = <<>> THEN <<pkg>>
    ELSE IF sortedSeq[Len(sortedSeq)].version <= pkg.version
         THEN Append(sortedSeq, pkg)
         ELSE Append(Insert(SubSeq(sortedSeq, 1, Len(sortedSeq) - 1), pkg),
                     sortedSeq[Len(sortedSeq)])
RECURSIVE sorted(_)
sorted(it) == IF it = <<>> THEN <<>>
              ELSE Insert(sorted(SubSeq(it, 1, Len(it) - 1)), it[Len(it)])

find_latest_first(repo, name, range_) ==
    LET it == sorted(find(repo, name, range_))
    IN  IF Len(it) = 0 THEN Raised("PackageNotFoundError")
        ELSE Returned(it[1])
find_latest(repo, name, range_) ==
    LET it == sorted(find(repo, name, range_))
    IN  IF Len(it) = 0 THEN Raised("PackageNotFoundError")
        ELSE Returned(it[Len(it)])

FindLatest ==
    /\ latest = Pending
    /\ \E name \in PackageNames, range_ \in Ranges :
         /\ request' = [name |-> name, range_ |-> range_]
         /\ latest' = find_latest(packages, name, range_)
    /\ UNCHANGED <<packages, mainVars, hookVars, waitVars, rezVars>>

\* ----------------------------------------------------------------- wait
Values == {"False", "True"}
OnValues == {"None"} \cup Values
PyTruthy(v) == v \notin {"None", "False"}

WaitIdle ==
    /\ on_value = "None"
    /\ loop = "idle"
    /\ state = [timeout |-> TRUE]
    /\ timerFired = FALSE
    /\ emitted = <<>>
    /\ heard = 0
    /\ waitResult = "idle"

\* Whether trigger, as connected for on_value, quits the loop on this value.
trigger(given, value) == IF PyTruthy(given) THEN value = given ELSE TRUE

\* wait() up to loop.exec_(): the trigger is connected, the timer is armed
StartWait ==
    /\ loop = "idle"
    /\ \E v \in OnValues : on_value' = v
    /\ loop' = "running"
    /\ waitResult' = "pending"
    /\ UNCHANGED <<state, timerFired, emitted, heard,
                   mainVars, hookVars, findVars, rezVars>>

\* The signal is emitted: by an event the loop dispatches, or by the test
\* once wait is over (the trigger is never disconnected).
Emit ==
    /\ loop = "running" \/ waitResult \in {"returned", "raised"}
    /\ Len(emitted) < MaxEmits
    /\ \E value \in Values :
         /\ emitted' = Append(emitted, value)
         /\ heard' = IF loop = "running" THEN heard + 1 ELSE heard
         /\ IF trigger(on_value, value)
            THEN loop' = "quit" /\ state' = [state EXCEPT !.timeout = FALSE]
            ELSE UNCHANGED <<loop, state>>
    /\ UNCHANGED <<on_value, timerFired, waitResult,
                   mainVars, hookVars, findVars, rezVars>>

\* QTimer.singleShot(timeout, loop.quit)
TimerFires ==
    /\ loop = "running" \/ waitResult \in {"returned", "raised"}
    /\ ~timerFired
    /\ timerFired' = TRUE
    /\ loop' = "quit"
    /\ UNCHANGED <<on_value, state, emitted, heard, waitResult,
                   mainVars, hookVars, findVars, rezVars>>

\* loop.exec_() returns and wait() looks at state["timeout"]
FinishWait ==
    /\ loop = "quit"
    /\ waitResult = "pending"
    /\ waitResult' = IF state.timeout THEN "raised" ELSE "returned"
    /\ UNCHANGED <<on_value, loop, state, timerFired, emitted, heard,
                   mainVars, hookVars, findVars, rezVars>>

\* ------------------------------------------- _find_rez_bin_in_context
Platforms == {"linux", "windows"}
bin_dir(system) == IF system = "windows" THEN "Scripts" ELSE "bin"
feature(system) == IF system = "windows"
                   THEN {"activate", "rez", "pip.exe", "python.exe"}
                   ELSE {"activate", "rez", "pip", "python"}

\* A directory: its listing, the listing of its bin directory (if any) and
\* whether <bin>/rez/.rez_production_install exists.
Plain == [entries |-> {}, content |-> {}, marker |-> FALSE]
Directories ==
    {Plain} \cup [entries : {{"bin"}, {"Scripts"}},
                  content : {feature("linux"), feature("windows"), {"rez"}},
                  marker  : BOOLEAN]

NoResult == [kind |-> "pending", dir |-> 0]

RezIdle ==
    /\ platform = "linux"
    /\ tree = [d \in 0..MaxDepth |-> Plain]
    /\ current = 0
    /\ rezpc = "idle"
    /\ rezResult = NoResult

up(path) == IF path = 0 THEN 0 ELSE path - 1

validate(dir) == dir.marker

\* line 98: the test of the loop, and its first branch
ListDir ==
    /\ rezpc = "listdir"
    /\ IF bin_dir(platform) \notin tree[current].entries
       THEN LET parent_dir == up(current) IN
            IF current = parent_dir
            THEN /\ rezpc' = "done"
                 /\ rezResult' = [kind |-> "None", dir |-> 0]
                 /\ UNCHANGED current
            ELSE /\ current' = parent_dir
                 /\ UNCHANGED <<rezpc, rezResult>>
       ELSE /\ rezpc' = "found"
            /\ UNCHANGED <<current, rezResult>>
    /\ UNCHANGED <<platform, tree, mainVars, hookVars, findVars, waitVars>>

\* lines 104-108: the else branch
CheckFound ==
    /\ rezpc = "found"
    /\ IF feature(platform) \subseteq tree[current].content /\ validate(tree[current])
       THEN /\ rezpc' = "done"
            /\ rezResult' = [kind |-> "bin_path", dir |-> current]
       ELSE /\ rezpc' = "listdir"
            /\ UNCHANGED rezResult
    /\ UNCHANGED <<platform, tree, current, mainVars, hookVars, findVars, waitVars>>

\* ------------------------------------------------------- specifications
Init == MainInit /\ HookIdle /\ FindIdle /\ WaitIdle /\ RezIdle
Next == MainNext
Spec == Init /\ [][Next]_vars

NoArgs == [verbose |-> 0, version |-> FALSE, clean |-> FALSE,
           no_config |-> FALSE, demo |-> FALSE, config_file |-> "None"]
\* allzpark started with no arguments, a console and no earlier settings
MainIdle ==
    /\ MainInit
    /\ argv = NoArgs /\ console /\ ~environ /\ readable
    /\ imported = ModernConfig
    /\ previous = [k \in Keys |-> Absent]

HookInit == MainIdle /\ HookIdle /\ FindIdle /\ WaitIdle /\ RezIdle
HookNext == Next \/ UnhandledException
HookSpec == HookInit /\ [][HookNext]_vars

FindInit ==
    /\ MainIdle /\ HookIdle /\ WaitIdle /\ RezIdle
    /\ packages \in SeqsUpTo(Packages, MaxPackages)
    /\ request = [name |-> "", range_ |-> NoRange]
    /\ latest = Pending
FindNext == FindLatest
FindSpec == FindInit /\ [][FindNext]_vars

WaitInit == MainIdle /\ HookIdle /\ FindIdle /\ RezIdle /\ WaitIdle
WaitNext == StartWait \/ Emit \/ TimerFires \/ FinishWait
WaitSpec == WaitInit /\ [][WaitNext]_vars

RezBinInit ==
    /\ MainIdle /\ HookIdle /\ FindIdle /\ WaitIdle
    /\ platform \in Platforms
    /\ tree \in [0..MaxDepth -> Directories]
    /\ current \in 0..MaxDepth
    /\ rezpc = "listdir"
    /\ rezResult = NoResult
RezBinNext == ListDir \/ CheckFound
RezBinSpec == RezBinInit /\ [][RezBinNext]_vars /\ WF_vars(RezBinNext)

\* --------------------------------------------------------------- claims

\* C1: started with --no-config, main() loads no user configuration: once
\* the allzparkconfig step is over, every attribute of allzparkconfig is
\* what _patch_allzparkconfig left, whatever the user's file contains.
NoConfigLoadsNothing ==
    (argv.no_config /\ pc = "compatibility")
        => allzparkconfig = _patch_allzparkconfig(imported)

\* C2: when the stored preferences cannot be read, --clean erases them and
\* startup goes on with a fresh store, and without --clean startup stops with
\* exit status 1; and after any preferences step with --clean no value of an
\* earlier session is left in the store.
PreferencesAttempted ==
    pc \in {"excepthook", "exec"} \/ failed = "- Loading preferences.. "
CleanStartsAnew ==
    /\ (PreferencesAttempted /\ ~readable /\ ~argv.clean)
           => (pc = "exit" /\ exitStatus = "1")
    /\ (PreferencesAttempted /\ ~readable /\ argv.clean)
           => (pc # "exit" /\ \A k \in Keys : storage[k] # "old")
    /\ (pc \in {"excepthook", "exec"} /\ argv.clean)
           => \A k \in Keys : storage[k] # "old"

\* C3: main.excepthook hands every unhandled exception to
\* ctrl.on_unhandled_exception first and once, and calls sys.__excepthook__
\* exactly when the controller reports it as not handled, once and with the
\* same (type, value, traceback).
CallsTo(fn) == {i \in DOMAIN hookCalls : hookCalls[i].fn = fn}
HookDelegates ==
    /\ Len(stderrTraces) <= Len(ctrlErrors)
    /\ (raised # NoException) =>
          /\ hookCalls # <<>>
          /\ hookCalls[1] = Call("ctrl.on_unhandled_exception", raised)
          /\ CallsTo("ctrl.on_unhandled_exception") = {1}
          /\ (CallsTo("sys.__excepthook__") # {}) <=> ~handled
          /\ Cardinality(CallsTo("sys.__excepthook__")) <= 1
          /\ \A i \in DOMAIN hookCalls : hookCalls[i].args = raised
          /\ ctrlErrors[Len(ctrlErrors)] = raised
          /\ ~handled => stderrTraces[Len(stderrTraces)] = raised
\* One exception the controller handled, then one it did not.
HookSawBoth ==
    /\ Len(ctrlErrors) = 2
    /\ Len(stderrTraces) = 1
    /\ ~handled
    /\ Len(hookCalls) = 2

\* C4: the level of the "allzpark" logger follows the help text of
\* -v/--verbose (in a session with a console, where main() leaves the
\* count alone): none WARNING, -v INFO, -vv INFO, -vvv or more DEBUG.
HelpLevel(count) == IF count = 0 THEN "WARNING"
                    ELSE IF count \in {1, 2} THEN "INFO"
                    ELSE "DEBUG"
VerbosityAsHelp ==
    (console /\ logLevel # "NOTSET") => logLevel = HelpLevel(argv.verbose)

\* C5: find_latest returns a package find yields whose version is at least
\* that of every package find yields, and raises PackageNotFoundError when
\* find yields none.
Yielded == find(packages, request.name, request.range_)
FindLatestIsNewest ==
    (latest # Pending) =>
        IF Yielded = <<>>
        THEN latest = Raised("PackageNotFoundError")
        ELSE /\ latest.outcome = "returned"
             /\ \E i \in DOMAIN Yielded : Yielded[i] = latest.package
             /\ \A i \in DOMAIN Yielded :
                    Yielded[i].version <= latest.package.version
\* The newest of several yielded packages is not the last one yielded.
NewestNotLastYielded ==
    /\ latest.outcome = "returned"
    /\ Len(Yielded) >= 2
    /\ Yielded[Len(Yielded)].version < latest.package.version

\* C6: wait returns normally exactly when the signal was emitted before the
\* timer fired (with a value equal to on_value, when on_value is given);
\* otherwise it raises once the loop has quit; an emission of another value
\* than a given on_value does not end the wait.
Awaited(value) == on_value = "None" \/ value = on_value
WaitReturnsIffSignalled ==
    /\ (waitResult \in {"returned", "raised"}) =>
          /\ loop = "quit"
          /\ (waitResult = "returned")
                <=> \E i \in 1..heard : Awaited(emitted[i])
    /\ (loop = "running") => \A i \in 1..heard : ~Awaited(emitted[i])

\* C7: _find_rez_bin_in_context terminates for every directory tree, with
\* the rez path of a bin directory holding every feature file and the
\* production-install marker, or with None at the filesystem root.
RezResultRight ==
    \/ /\ rezResult.kind = "bin_path"
       /\ bin_dir(platform) \in tree[rezResult.dir].entries
       /\ feature(platform) \subseteq tree[rezResult.dir].content
       /\ tree[rezResult.dir].marker
    \/ /\ rezResult.kind = "None"
       /\ current = 0
FindRezBinTerminates == <>(rezpc = "done" /\ RezResultRight)

\* C8: after _patch_allzparkconfig() and _load_userconfig(), for every
\* non-dunder member X the module had, _X holds the original value of X,
\* and the user's values have replaced nothing but members X themselves.
Members == {X \in Names : HasAttr(imported, X) /\ ~StartsWithDunder(X)}
BackupsKeepOriginals ==
    (pc = "compatibility") =>
        /\ \A X \in Members : allzparkconfig[Prefixed(X)] = imported[X]
        /\ \A n \in Names \ Members :
               allzparkconfig[n] = _patch_allzparkconfig(imported)[n]

====
